---------------------------- MODULE Spec2Model ----------------------------
(***************************************************************************)
(* Model of the text-to-speech studio: the audio utilities of              *)
(* src/utils/audioUtils.ts (decode, decodeAudioData, createWavBlob) as     *)
(* operators, and the App component of src/App.tsx as a state machine of   *)
(* its event handlers and promise continuations.                           *)
(*                                                                         *)
(* Conventions.  A base64 string is a sequence of one-character strings;   *)
(* the text of the textarea is the sequence of its UTF-16 code units.  An  *)
(* ArrayBuffer is a sequence of bytes (1-based here, 0-based in the        *)
(* source).  A Uint8Array is a view of an ArrayBuffer: the record          *)
(* [buffer, byteOffset, length], its element i being byte byteOffset + i   *)
(* of the buffer; `x.buffer` is the whole buffer, whatever part of it x    *)
(* views.  A call that may throw returns [tag |-> "ok", value |-> ...] or  *)
(* [tag |-> "throw", error |-> ...].  The numbers given to createWavBlob,  *)
(* which may exceed 2^31, are non-negative integers kept as little-endian  *)
(* base-256 digit sequences (24000 is <<192, 93>>).                        *)
(***************************************************************************)
EXTENDS Integers, Sequences, FiniteSets, TLC

VARIABLES
    \* ---- harness of the pure utilities (one call per behaviour)
    args,                \* the arguments of the call under test
    ret,                 \* [tag |-> "pending"] or what the call returned / threw
    \* ---- React state and refs of App (src/App.tsx:17-32)
    activeTab,           \* 'tts' | 'compose'
    text,                \* textarea content
    isGeneratingSpeech,
    ttsError,            \* "null" or the message shown
    generatedAudio,      \* [tag |-> "null"] or the stored base64 payload
    audioContextRef,     \* "null" | "suspended" | "running"
    audioSourceRef,      \* 0 (null) or the id of the source node it refers to
    calls,               \* handleGenerateSpeech invocations: position and captured text
    sources,             \* per invocation, the AudioBufferSourceNode it started
    microtasks,          \* invocations suspended at `await decodeAudioData`, oldest first
    download,            \* bytes of the last WAV file handed to the browser
    generatedLyrics,
    isGeneratingLyrics,
    lyricsError

appVars == <<activeTab, text, isGeneratingSpeech, ttsError, generatedAudio,
             audioContextRef, audioSourceRef, calls, sources, microtasks, download,
             generatedLyrics, isGeneratingLyrics, lyricsError>>
vars == <<args, ret, activeTab, text, isGeneratingSpeech, ttsError, generatedAudio,
          audioContextRef, audioSourceRef, calls, sources, microtasks, download,
          generatedLyrics, isGeneratingLyrics, lyricsError>>

(***************************************************************************)
(* Bounds of the model.                                                    *)
(***************************************************************************)
MaxB64Len == 4       \* longest byte string given to the base64 round trip
MaxPcmLen == 6       \* longest PCM buffer given to decodeAudioData
MaxWavLen == 3       \* longest PCM buffer given to createWavBlob
MaxChannels == 2     \* largest channel count given to decodeAudioData
MaxCalls == 2        \* handleGenerateSpeech invocations in one behaviour

\* Byte values the bounded buffers are drawn from: both signs of the high
\* byte of a sample and both ends of the range.
SampleBytes == {0, 127, 128, 255}

Ok(v) == [tag |-> "ok", value |-> v]
Throw(e) == [tag |-> "throw", error |-> e]

RECURSIVE Pow2(_)
Pow2(n) == IF n = 0 THEN 1 ELSE 2 * Pow2(n - 1)

\* All sequences over S of length at most n.
SeqsUpTo(S, n) == UNION {[1..k -> S] : k \in 0..n}

(***************************************************************************)
(* Typed arrays.                                                           *)
(***************************************************************************)
\* new Uint8Array(buffer): the view of a whole ArrayBuffer.
Uint8ArrayOver(buffer) == [buffer |-> buffer, byteOffset |-> 0, length |-> Len(buffer)]

\* new Uint8Array(len): a view of a fresh, zero-filled buffer of len bytes.
NewUint8Array(len) == Uint8ArrayOver([i \in 1..len |-> 0])

\* array[i] = v (0-based i): the store keeps v modulo 2^8; a store beyond the
\* end of the array is ignored.
ToUint8(v) == v % 256

SetElement(array, i, v) ==
    IF i >= 0 /\ i < array.length
    THEN [array EXCEPT !.buffer[array.byteOffset + i + 1] = ToUint8(v)]
    ELSE array

\* array[i] (0-based i): undefined beyond the end of the array.
Element(array, i) ==
    IF i >= 0 /\ i < array.length
    THEN [tag |-> "ok", value |-> array.buffer[array.byteOffset + i + 1]]
    ELSE [tag |-> "undefined"]

(***************************************************************************)
(* Base64.  atob is the platform's forgiving-base64 decoder; Base64Encode  *)
(* is the reference encoder (btoa) used to set up the round trip.          *)
(***************************************************************************)
Base64Alphabet ==
    <<"A","B","C","D","E","F","G","H","I","J","K","L","M","N","O","P",
      "Q","R","S","T","U","V","W","X","Y","Z","a","b","c","d","e","f",
      "g","h","i","j","k","l","m","n","o","p","q","r","s","t","u","v",
      "w","x","y","z","0","1","2","3","4","5","6","7","8","9","+","/">>

Base64Chars == {Base64Alphabet[k] : k \in 1..64}

\* The 6-bit value of an alphabet character.
Sextet(c) == (CHOOSE k \in 1..64 : Base64Alphabet[k] = c) - 1

AsciiWhitespace == {" ", "\t", "\n", "\f", "\r"}

RECURSIVE StripWhitespace(_)
StripWhitespace(s) ==
    IF s = <<>> THEN <<>>
    ELSE IF Head(s) \in AsciiWhitespace THEN StripWhitespace(Tail(s))
    ELSE <<Head(s)>> \o StripWhitespace(Tail(s))

\* One or two trailing "=" are dropped when the length is a multiple of 4.
StripPadding(s) ==
    IF Len(s) % 4 # 0 \/ Len(s) = 0 THEN s
    ELSE IF s[Len(s)] = "=" /\ s[Len(s) - 1] = "="
         THEN SubSeq(s, 1, Len(s) - 2)
    ELSE IF s[Len(s)] = "=" THEN SubSeq(s, 1, Len(s) - 1)
    ELSE s

\* The bytes of a padding-free alphabet string: each group of four characters
\* is three bytes; a trailing group of two or three characters is one or two
\* bytes, its left-over low bits discarded.
RECURSIVE SextetsToBytes(_)
SextetsToBytes(s) ==
    IF Len(s) < 2 THEN <<>>
    ELSE LET a == Sextet(s[1])
             b == Sextet(s[2])
             b1 == a * 4 + (b \div 16)
         IN IF Len(s) = 2 THEN <<b1>>
            ELSE LET c == Sextet(s[3])
                     b2 == (b % 16) * 16 + (c \div 4)
                 IN IF Len(s) = 3 THEN <<b1, b2>>
                    ELSE LET d == Sextet(s[4])
                             b3 == (c % 4) * 64 + d
                         IN <<b1, b2, b3>> \o SextetsToBytes(SubSeq(s, 5, Len(s)))

\* atob(base64): the binary string, as the sequence of its char codes, or an
\* InvalidCharacterError.
atob(base64) ==
    LET s == StripPadding(StripWhitespace(base64))
    IN IF Len(s) % 4 = 1 \/ \E i \in 1..Len(s) : s[i] \notin Base64Chars
       THEN Throw("InvalidCharacterError")
       ELSE Ok(SextetsToBytes(s))

RECURSIVE Base64Encode(_)
Base64Encode(bytes) ==
    IF bytes = <<>> THEN <<>>
    ELSE LET n == Len(bytes)
             b1 == bytes[1]
             b2 == IF n >= 2 THEN bytes[2] ELSE 0
             b3 == IF n >= 3 THEN bytes[3] ELSE 0
             c1 == Base64Alphabet[(b1 \div 4) + 1]
             c2 == Base64Alphabet[(b1 % 4) * 16 + (b2 \div 16) + 1]
             c3 == Base64Alphabet[(b2 % 16) * 4 + (b3 \div 64) + 1]
             c4 == Base64Alphabet[(b3 % 64) + 1]
         IN IF n = 1 THEN <<c1, c2, "=", "=">>
            ELSE IF n = 2 THEN <<c1, c2, c3, "=">>
            ELSE <<c1, c2, c3, c4>> \o Base64Encode(SubSeq(bytes, 4, n))

\* The loop of lines 11-13 from index i to `last` (0-based, inclusive).
RECURSIVE FillBytes(_, _, _, _)
FillBytes(bytes, binaryString, i, last) ==
    IF i > last THEN bytes
    ELSE FillBytes(SetElement(bytes, i, binaryString[i + 1]), binaryString, i + 1, last)

\* decode with its loop stopping one element early (i < len - 1).
decodeStoppingEarly(base64) ==
    LET binaryString == atob(base64)
    IN IF binaryString.tag = "throw" THEN binaryString
       ELSE LET len == Len(binaryString.value)
            IN Ok(FillBytes(NewUint8Array(len), binaryString.value, 0, len - 2))

\* decode(base64): a fresh Uint8Array of the length of atob's binary string,
\* element i holding charCodeAt(i).
decode(base64) ==
    LET binaryString == atob(base64)
    IN IF binaryString.tag = "throw" THEN binaryString
       ELSE LET len == Len(binaryString.value)
            IN Ok(FillBytes(NewUint8Array(len), binaryString.value, 0, len - 1))


(***************************************************************************)
(* 32-bit floats.  A Float32Array element is kept exactly, as sign * mant *)
(* * 2^exp with mant odd (or 0): the canonical form of a dyadic rational.  *)
(***************************************************************************)
Abs(n) == IF n < 0 THEN -n ELSE n

Sign(n) == IF n < 0 THEN -1 ELSE IF n = 0 THEN 0 ELSE 1

FloatZero == [sign |-> 0, mant |-> 0, exp |-> 0]

\* sign * m * 2^e in canonical form (m > 0).
RECURSIVE Dyadic(_, _, _)
Dyadic(sign, m, e) ==
    IF m % 2 = 0 THEN Dyadic(sign, m \div 2, e + 1)
    ELSE [sign |-> sign, mant |-> m, exp |-> e]

\* The binary exponent e of a/d (2^e <= a/d < 2^(e+1)) with a and d scaled so
\* that d <= a < 2d.
RECURSIVE Normalise(_, _, _)
Normalise(a, d, e) ==
    IF a >= 2 * d THEN Normalise(a, 2 * d, e + 1)
    ELSE IF a < d THEN Normalise(2 * a, d, e - 1)
    ELSE [a |-> a, d |-> d, e |-> e]

\* Long division: `bits` more quotient bits of r/d after the quotient m.
RECURSIVE DivideBits(_, _, _, _)
DivideBits(r, d, m, bits) ==
    IF bits = 0 THEN [m |-> m, r |-> r]
    ELSE LET r2 == 2 * r
             bit == IF r2 >= d THEN 1 ELSE 0
         IN DivideBits(r2 - bit * d, d, 2 * m + bit, bits - 1)

\* n / d (d > 0) stored into a Float32Array element: the quotient rounded to a
\* 24-bit significand, ties to even.  For the divisor 32768 the quotient of the
\* double division is exact, so the store rounds only once.
Float32Div(n, d) ==
    IF n = 0 THEN FloatZero
    ELSE LET nz == Normalise(Abs(n), d, 0)
             q == DivideBits(nz.a - nz.d, nz.d, 1, 23)
             up == 2 * q.r > nz.d \/ (2 * q.r = nz.d /\ q.m % 2 = 1)
             m == IF up THEN q.m + 1 ELSE q.m
         IN Dyadic(Sign(n), m, nz.e - 23)

(***************************************************************************)
(* decodeAudioData (src/utils/audioUtils.ts:26-49).                        *)
(***************************************************************************)
\* The element of an Int16Array over the two bytes lo, hi (little-endian, as
\* on every platform the Web Audio API runs on), sign-extended.
ToInt16(lo, hi) ==
    LET u == lo + 256 * hi
    IN IF u >= 32768 THEN u - 65536 ELSE u

\* new Int16Array(buffer): a view of the whole buffer; a RangeError when its
\* byte length is not a multiple of 2.
NewInt16Array(buffer) ==
    IF Len(buffer) % 2 # 0 THEN Throw("RangeError")
    ELSE Ok([k \in 1..(Len(buffer) \div 2) |-> ToInt16(buffer[2 * k - 1], buffer[2 * k])])

\* ctx.createBuffer(numberOfChannels, length, sampleRate), length given as the
\* fraction num/den: the unsigned long conversion truncates it, and the Web
\* Audio API throws NotSupportedError for a zero length, a channel count
\* outside 1..32 or a sample rate outside the supported range.  A fresh buffer
\* is silent.
createBuffer(numberOfChannels, num, den, rate) ==
    LET length == num \div den
    IN IF numberOfChannels < 1 \/ numberOfChannels > 32 \/ length = 0
          \/ rate < 8000 \/ rate > 96000
       THEN Throw("NotSupportedError")
       ELSE Ok([numberOfChannels |-> numberOfChannels, length |-> length,
                sampleRate |-> rate,
                channelData |-> [c \in 1..numberOfChannels |->
                                    [i \in 1..length |-> FloatZero]]])

\* undefined / 32768.0 is NaN.
FloatNaN == [nan |-> TRUE]

\* Normalising by 32767 instead of 32768.
NormalizeSampleBy32767(v) == IF v.tag = "ok" THEN Float32Div(v.value, 32767) ELSE FloatNaN

\* dataInt16[k] (0-based): undefined beyond the end of the array.
ReadInt16(dataInt16, k) ==
    IF k >= 0 /\ k < Len(dataInt16) THEN Ok(dataInt16[k + 1]) ELSE [tag |-> "undefined"]

\* The value of the normalising store of line 44.
NormalizeSample(v) == IF v.tag = "ok" THEN Float32Div(v.value, 32768) ELSE FloatNaN

\* Position in the interleaved data read for frame i of a channel (0-based).
InterleavedIndex(i, numChannels, channel) == i * numChannels + channel

\* The inner loop (lines 42-45) on one channel: i runs while i < frameCount =
\* len16 / numChannels; a store at an index beyond the channel's length is
\* ignored by the Float32Array.
FillChannel(channelData, dataInt16, numChannels, channel) ==
    [i1 \in DOMAIN channelData |->
        IF (i1 - 1) * numChannels < Len(dataInt16)
        THEN NormalizeSample(ReadInt16(dataInt16,
                                       InterleavedIndex(i1 - 1, numChannels, channel)))
        ELSE channelData[i1]]

decodeAudioData(data, rate, numChannels) ==
    LET dataInt16 == NewInt16Array(data.buffer)
    IN IF dataInt16.tag = "throw" THEN dataInt16
       ELSE LET buffer == createBuffer(numChannels, Len(dataInt16.value), numChannels, rate)
            IN IF buffer.tag = "throw" THEN buffer
               ELSE Ok([buffer.value EXCEPT !.channelData =
                          [c \in 1..numChannels |->
                              FillChannel(buffer.value.channelData[c], dataInt16.value,
                                          numChannels, c - 1)]])

(***************************************************************************)
(* createWavBlob (src/utils/audioUtils.ts:58-96).  A number is kept as its *)
(* little-endian base-256 digit sequence.                                  *)
(***************************************************************************)
RECURSIVE Digits(_)
Digits(v) == IF v = 0 THEN <<>> ELSE <<v % 256>> \o Digits(v \div 256)

\* A little-endian sequence without its most significant zeros: two such
\* sequences are equal iff the numbers are.
RECURSIVE TrimDigits(_)
TrimDigits(ds) ==
    IF ds = <<>> THEN <<>>
    ELSE IF ds[Len(ds)] = 0 THEN TrimDigits(SubSeq(ds, 1, Len(ds) - 1))
    ELSE ds

\* The digits of (value of ds) * k + carry, k one digit.
RECURSIVE MulDigits(_, _, _)
MulDigits(ds, k, carry) ==
    IF ds = <<>> THEN Digits(carry)
    ELSE LET p == Head(ds) * k + carry
         IN <<p % 256>> \o MulDigits(Tail(ds), k, p \div 256)

RECURSIVE AddDigits(_, _, _)
AddDigits(a, b, carry) ==
    IF a = <<>> /\ b = <<>> THEN Digits(carry)
    ELSE LET x == (IF a = <<>> THEN 0 ELSE Head(a)) + (IF b = <<>> THEN 0 ELSE Head(b)) + carry
         IN <<x % 256>> \o AddDigits(IF a = <<>> THEN <<>> ELSE Tail(a),
                                      IF b = <<>> THEN <<>> ELSE Tail(b), x \div 256)

\* The exact product of two numbers.
RECURSIVE MulExact(_, _)
MulExact(a, b) ==
    IF b = <<>> THEN <<>>
    ELSE TrimDigits(AddDigits(MulDigits(a, Head(b), 0), <<0>> \o MulExact(a, Tail(b)), 0))

\* The binary digits of a number, least significant first.
RECURSIVE BitsOf(_)
BitsOf(ds) ==
    IF ds = <<>> THEN <<>>
    ELSE [k \in 1..8 |-> (Head(ds) \div Pow2(k - 1)) % 2] \o BitsOf(Tail(ds))

RECURSIVE DigitsOfBits(_)
DigitsOfBits(bits) ==
    IF bits = <<>> THEN <<>>
    ELSE LET n == IF Len(bits) < 8 THEN Len(bits) ELSE 8
             Value[k \in 0..n] == IF k = 0 THEN 0 ELSE Value[k - 1] + bits[k] * Pow2(k - 1)
         IN <<Value[n]>> \o DigitsOfBits(SubSeq(bits, n + 1, Len(bits)))

RECURSIVE IncBits(_)
IncBits(bits) ==
    IF bits = <<>> THEN <<1>>
    ELSE IF Head(bits) = 0 THEN <<1>> \o Tail(bits)
    ELSE <<0>> \o IncBits(Tail(bits))

\* The IEEE-754 double nearest to a non-negative integer: the integer itself
\* up to 53 significant bits, otherwise its 53 leading bits rounded to
\* nearest, ties to even.  (No number of the model reaches 2^1024.)
RoundToDouble(ds) ==
    LET bits == TrimDigits(BitsOf(ds))
        n == Len(bits)
    IN IF n <= 53 THEN TrimDigits(ds)
       ELSE LET drop == n - 53
                kept == SubSeq(bits, drop + 1, n)
                sticky == \E k \in 1..(drop - 1) : bits[k] = 1
                up == bits[drop] = 1 /\ (sticky \/ kept[1] = 1)
                rounded == IF up THEN IncBits(kept) ELSE kept
            IN TrimDigits(DigitsOfBits([k \in 1..drop |-> 0] \o rounded))

\* a * b on JavaScript numbers: the exact product rounded to a double.
Float64Mul(a, b) == RoundToDouble(MulExact(a, b))

\* The low w bytes of a value: what setUint32 / setUint16 keep of it
\* (the value modulo 2^(8w)), least significant byte first.
LowBytes(ds, w) == [k \in 1..w |-> IF k <= Len(ds) THEN ds[k] ELSE 0]

CharCode(c) ==
    CASE c = "R" -> 82 [] c = "I" -> 73 [] c = "F" -> 70 [] c = "W" -> 87
      [] c = "A" -> 65 [] c = "V" -> 86 [] c = "E" -> 69 [] c = "f" -> 102
      [] c = "m" -> 109 [] c = "t" -> 116 [] c = " " -> 32 [] c = "d" -> 100
      [] c = "a" -> 97

\* Bytes written at 0-based offset `offset` of the view.
SetBytes(view, offset, bytes) ==
    [k \in DOMAIN view |->
        IF k - 1 >= offset /\ k - 1 < offset + Len(bytes)
        THEN bytes[k - offset] ELSE view[k]]

writeString(view, offset, str) ==
    SetBytes(view, offset, [k \in 1..Len(str) |-> ToUint8(CharCode(str[k]))])

\* view.setUint32(offset, value, true) and view.setUint16(offset, value, true).
setUint32(view, offset, valueDigits) == SetBytes(view, offset, LowBytes(valueDigits, 4))

setUint16(view, offset, valueDigits) == SetBytes(view, offset, LowBytes(valueDigits, 2))

\* The byte rate of one channel: sampleRate * (bitsPerSample / 8).
ByteRateOfOneChannel(sampleRate, numChannels, bitsPerSample) ==
    Float64Mul(sampleRate, Digits(bitsPerSample \div 8))

\* sampleRate * numChannels * (bitsPerSample / 8) (line 81), evaluated left
\* to right in doubles.
ByteRate(sampleRate, numChannels, bitsPerSample) ==
    Float64Mul(Float64Mul(sampleRate, numChannels), Digits(bitsPerSample \div 8))

\* numChannels * (bitsPerSample / 8) (line 82).
BlockAlign(numChannels, bitsPerSample) ==
    Float64Mul(numChannels, Digits(bitsPerSample \div 8))

\* view.setUint8(offset, value), value taken from a typed array element.
setUint8(view, offset, v) ==
    [view EXCEPT ![offset + 1] = IF v.tag = "ok" THEN ToUint8(v.value) ELSE 0]

\* The copy loop of lines 91-93 from index i on: byte i of the blob's data
\* region is element i of pcmAsUint8.
RECURSIVE CopyPcm(_, _, _, _)
CopyPcm(view, pcmAsUint8, i, dataSize) ==
    IF i >= dataSize THEN view
    ELSE CopyPcm(setUint8(view, 44 + i, Element(pcmAsUint8, i)), pcmAsUint8, i + 1, dataSize)

createWavBlob(pcmData, sampleRate, numChannels) ==
    LET bitsPerSample == 16
        dataSize == pcmData.length
        v0 == [k \in 1..(44 + dataSize) |-> 0]
        v1 == writeString(v0, 0, <<"R", "I", "F", "F">>)
        v2 == setUint32(v1, 4, Digits(36 + dataSize))
        v3 == writeString(v2, 8, <<"W", "A", "V", "E">>)
        v4 == writeString(v3, 12, <<"f", "m", "t", " ">>)
        v5 == setUint32(v4, 16, Digits(16))
        v6 == setUint16(v5, 20, Digits(1))
        v7 == setUint16(v6, 22, numChannels)
        v8 == setUint32(v7, 24, sampleRate)
        v9 == setUint32(v8, 28, ByteRate(sampleRate, numChannels, bitsPerSample))
        v10 == setUint16(v9, 32, BlockAlign(numChannels, bitsPerSample))
        v11 == setUint16(v10, 34, Digits(bitsPerSample))
        v12 == writeString(v11, 36, <<"d", "a", "t", "a">>)
        v13 == setUint32(v12, 40, Digits(dataSize))
        pcmAsUint8 == Uint8ArrayOver(pcmData.buffer)
    IN [type |-> "audio/wav", bytes |-> CopyPcm(v13, pcmAsUint8, 0, dataSize)]


(***************************************************************************)
(* Harness of the utilities: the arguments are drawn by the initial state, *)
(* one action applies the function to them.                                *)
(***************************************************************************)
Pending == [tag |-> "pending"]

\* new Uint8Array(buffer, byteOffset, length), buffer.subarray(begin, end): a
\* view of part of a buffer.  Spanning the buffer (byteOffset 0, the length
\* that of the buffer) it is the array decode() builds.
Uint8ArrayView(buffer, byteOffset, length) ==
    [buffer |-> buffer, byteOffset |-> byteOffset, length |-> length]

\* Bytes whose base64 text uses both ends of the alphabet, "+" and "/".
Base64Bytes == {0, 65, 127, 128, 251, 255}

\* Sample rates and channel counts given to createWavBlob: the program's own
\* (24000, 1), and values that pass the width of a header field (2^32 + 24000
\* as a sample rate, 32768 channels) or the precision of a double (the
\* product 2147483647 * 4194305 is above 2^53 and odd).
WavSampleRates == {Digits(8000), Digits(24000), Digits(2147483647), <<192, 93, 0, 0, 1>>}

WavChannelCounts == {Digits(1), Digits(2), Digits(32767), Digits(32768), Digits(4194305)}

\* DEFAULT_TTS_TEXT (src/App.tsx:13), shortened to one word ("a").
DefaultTtsText == <<97>>

\* The App state while only a utility is exercised (its state after mount).
AppAtRest ==
    /\ activeTab = "tts"
    /\ text = DefaultTtsText
    /\ isGeneratingSpeech = FALSE
    /\ ttsError = "null"
    /\ generatedAudio = [tag |-> "null"]
    /\ audioContextRef = "running"
    /\ audioSourceRef = 0
    /\ calls = [i \in 1..MaxCalls |-> [pc |-> "idle", text |-> <<>>]]
    /\ sources = [i \in 1..MaxCalls |-> "none"]
    /\ microtasks = <<>>
    /\ download = <<>>
    /\ generatedLyrics = <<>>
    /\ isGeneratingLyrics = FALSE
    /\ lyricsError = "null"

Base64Init ==
    /\ \E X \in SeqsUpTo(Base64Bytes, MaxB64Len) :
           args = [fn |-> "decode", bytes |-> X, base64 |-> Base64Encode(X)]
    /\ ret = Pending
    /\ AppAtRest

CallDecode ==
    /\ args.fn = "decode"
    /\ ret = Pending
    /\ ret' = decode(args.base64)
    /\ UNCHANGED <<args, appVars>>

Base64Spec == Base64Init /\ [][CallDecode]_vars

PcmInit ==
    /\ \E buffer \in SeqsUpTo(SampleBytes, MaxPcmLen), numChannels \in 1..MaxChannels :
         \E byteOffset \in 0..Len(buffer) : \E length \in 0..(Len(buffer) - byteOffset) :
           args = [fn |-> "decodeAudioData",
                   data |-> Uint8ArrayView(buffer, byteOffset, length),
                   sampleRate |-> 24000, numChannels |-> numChannels]
    /\ ret = Pending
    /\ AppAtRest

\* Every 16-bit sample, as a one-frame mono buffer, given as the array that
\* spans it or as a view of its second byte.
SampleInit ==
    /\ \E lo \in 0..255, hi \in 0..255, byteOffset \in 0..1 :
           args = [fn |-> "decodeAudioData",
                   data |-> Uint8ArrayView(<<lo, hi>>, byteOffset, 2 - byteOffset),
                   sampleRate |-> 24000, numChannels |-> 1]
    /\ ret = Pending
    /\ AppAtRest

CallDecodeAudioData ==
    /\ args.fn = "decodeAudioData"
    /\ ret = Pending
    /\ ret' = decodeAudioData(args.data, args.sampleRate, args.numChannels)
    /\ UNCHANGED <<args, appVars>>

PcmSpec == PcmInit /\ [][CallDecodeAudioData]_vars

SampleSpec == SampleInit /\ [][CallDecodeAudioData]_vars

WavInit ==
    /\ \E buffer \in SeqsUpTo(SampleBytes, MaxWavLen),
          sampleRate \in WavSampleRates, numChannels \in WavChannelCounts :
         \E byteOffset \in 0..Len(buffer) : \E length \in 0..(Len(buffer) - byteOffset) :
           args = [fn |-> "createWavBlob",
                   pcmData |-> Uint8ArrayView(buffer, byteOffset, length),
                   sampleRate |-> sampleRate, numChannels |-> numChannels]
    /\ ret = Pending
    /\ AppAtRest

CallCreateWavBlob ==
    /\ args.fn = "createWavBlob"
    /\ ret = Pending
    /\ ret' = Ok(createWavBlob(args.pcmData, args.sampleRate, args.numChannels))
    /\ UNCHANGED <<args, appVars>>

WavSpec == WavInit /\ [][CallCreateWavBlob]_vars


(***************************************************************************)
(* Properties of the utilities.                                            *)
(***************************************************************************)
Returned(fn) == args.fn = fn /\ ret # Pending

\* The bytes a Uint8Array holds: its elements 0 .. length-1, in order.
BytesOf(array) == [i \in 1..array.length |-> array.buffer[array.byteOffset + i]]

\* The w bytes of the blob at 0-based offset `offset`.
Field(bytes, offset, w) == SubSeq(bytes, offset + 1, offset + w)

\* The field, read as a little-endian unsigned integer, is the number n.
FieldIs(bytes, offset, w, nDigits) ==
    TrimDigits(Field(bytes, offset, w)) = TrimDigits(nDigits)

\* n < 2^(8w): the number fits a field of w bytes.
Fits(nDigits, w) == Len(TrimDigits(nDigits)) <= w

\* sr * ch * 2 and ch * 2, exactly.
ExpectedByteRate == MulExact(MulExact(args.sampleRate, args.numChannels), <<2>>)

ExpectedBlockAlign == MulExact(args.numChannels, <<2>>)

C2_PcmCopiedVerbatim ==
    (Returned("createWavBlob") /\ args.pcmData.length % 2 = 0) =>
        LET b == ret.value.bytes
            B == BytesOf(args.pcmData)
        IN /\ Len(b) = 44 + Len(B)
           /\ \A i \in 1..Len(B) : b[44 + i] = B[i]
           /\ SubSeq(b, 45, Len(b)) = B

\* The signed 16-bit value of the two bytes of sample p (0-based) of a buffer:
\* low byte first, sign-extended.
SampleAt(data, p) ==
    LET lo == data[2 * p + 1]
        hi == data[2 * p + 2]
    IN IF hi >= 128 THEN lo + 256 * hi - 65536 ELSE lo + 256 * hi

\* The float v / 32768, which is a dyadic rational.
Over32768(v) == IF v = 0 THEN FloatZero ELSE Dyadic(Sign(v), Abs(v), -15)

\* f * 32768 for a float that is a multiple of 2^-15.
Times32768(f) == f.sign * f.mant * Pow2(f.exp + 15)

Remainder == args.data.length % (2 * args.numChannels)

WholeFrames == args.data.length \div (2 * args.numChannels)

\* C3 as stated: with a partial trailing frame of r bytes, 0 < r < 2*ch, odd
\* or even, the result is a buffer of exactly N frames and no error is raised.
C3_PartialFrameDropped ==
    (Returned("decodeAudioData") /\ Remainder > 0) =>
        /\ ret.tag = "ok"
        /\ ret.value.length = WholeFrames

\* C4: every sample written is v / 32768 exactly, v the signed 16-bit value of
\* the two bytes it was decoded from; it lies in [-1, 32767/32768]; -32768
\* gives -1 and 0 gives 0.
C4_SampleNormalized ==
    (Returned("decodeAudioData") /\ ret.tag = "ok") =>
        \A c \in 1..args.numChannels : \A i \in 1..ret.value.length :
            LET v == SampleAt(args.data.buffer, (i - 1) * args.numChannels + (c - 1))
                f == ret.value.channelData[c][i]
            IN /\ f = Over32768(v)
               /\ f.exp >= -15
               /\ Times32768(f) >= -32768 /\ Times32768(f) <= 32767
               /\ v = -32768 => f = [sign |-> -1, mant |-> 1, exp |-> 0]
               /\ v = 0 => f = FloatZero

\* The most negative sample was decoded.
C4_Witness ==
    /\ Returned("decodeAudioData")
    /\ args.data = Uint8ArrayOver(<<0, 128>>)
    /\ ret.tag = "ok"
    /\ ret.value.channelData[1][1] = [sign |-> -1, mant |-> 1, exp |-> 0]

\* C5: decode of the base64 text of X is a buffer of the length of X holding
\* the bytes of X.
C5_Base64RoundTrip ==
    Returned("decode") =>
        /\ ret.tag = "ok"
        /\ ret.value.length = Len(args.bytes)
        /\ \A i \in 1..Len(args.bytes) : Element(ret.value, i - 1) = Ok(args.bytes[i])
        /\ BytesOf(ret.value) = args.bytes

\* A two-byte string, whose text ends in one "=", was decoded.
C5_Witness ==
    /\ Returned("decode")
    /\ args.bytes = <<251, 255>>
    /\ args.base64[4] = "="
    /\ ret.tag = "ok"

\* C7: a buffer of exactly F frames (F >= 1) gives a buffer of F frames whose
\* channel c holds at frame i the normalized sample at i*numChannels + c, and
\* nothing else; with F = 0 nothing is written.
C7_Deinterleaved ==
    (Returned("decodeAudioData") /\ Remainder = 0) =>
        IF WholeFrames = 0
        THEN ret.tag = "ok" => \A c \in DOMAIN ret.value.channelData :
                                   ret.value.channelData[c] = <<>>
        ELSE /\ ret.tag = "ok"
             /\ DOMAIN ret.value.channelData = 1..args.numChannels
             /\ \A c \in 1..args.numChannels :
                   /\ DOMAIN ret.value.channelData[c] = 1..WholeFrames
                   /\ \A i \in 1..WholeFrames :
                         ret.value.channelData[c][i] =
                             Over32768(SampleAt(BytesOf(args.data),
                                                (i - 1) * args.numChannels + (c - 1)))


(***************************************************************************)
(* The App component (src/App.tsx).  One action per event handler run and  *)
(* per promise continuation; a state is the React state as committed after *)
(* the synchronous run.  A handler can only run while the control it is    *)
(* bound to is rendered and enabled.  The voice select and the lyrics      *)
(* prompt keep their defaults (no handler that reads them is changed by    *)
(* them).                                                                  *)
(***************************************************************************)
\* What the user can type into the textarea: only whitespace (a no-break
\* space, U+00A0), or a word ("a").
Texts == {<<160>>, <<97>>}

\* What generateLyrics can resolve to ("l").
LyricsTexts == {<<108>>}

\* The code units String.prototype.trim strips: ECMAScript WhiteSpace (TAB,
\* VT, FF, SP, NBSP, ZWNBSP and the Unicode Zs category) and LineTerminator
\* (LF, CR, LS, PS).
WhiteSpace == {9, 11, 12, 32, 160, 5760, 8239, 8287, 12288, 65279} \cup (8192..8202)

LineTerminator == {10, 13, 8232, 8233}

\* text.trim(): the string without its leading and trailing whitespace.
RECURSIVE TrimStart(_)
TrimStart(t) ==
    IF t # <<>> /\ Head(t) \in WhiteSpace \cup LineTerminator
    THEN TrimStart(Tail(t)) ELSE t

RECURSIVE TrimEnd(_)
TrimEnd(t) ==
    IF t # <<>> /\ t[Len(t)] \in WhiteSpace \cup LineTerminator
    THEN TrimEnd(SubSeq(t, 1, Len(t) - 1)) ELSE t

Trim(t) == TrimEnd(TrimStart(t))

\* Base64 payloads the speech API can return: two samples of PCM, one byte
\* (not a whole sample), a string that is not base64, and only whitespace.
PayloadPcm == <<"A", "A", "D", "/", "f", "w", "=", "=">>

PayloadOddLength == <<"A", "A", "=", "=">>

PayloadMalformed == <<"A">>

PayloadBlank == <<" ">>

Payloads == {PayloadPcm, PayloadOddLength, PayloadMalformed, PayloadBlank}

\* How the promise of generateSpeech (src/services/geminiService.ts:10-34)
\* can settle: rejected, resolved with undefined, resolved with a string.
SpeechResponses ==
    {Throw("Failed to communicate with Gemini API"), [tag |-> "undefined"]}
        \cup {Ok(p) : p \in Payloads}

\* How the promise of generateLyrics (geminiService.ts:36-53) can settle.
LyricsResponses ==
    {Throw("Failed to communicate with Gemini API")} \cup {Ok(l) : l \in LyricsTexts}

NoAudio == [tag |-> "null"]

CallIds == 1..MaxCalls

\* disabled= of the controls of renderTtsTab and renderComposeTab.
TextAreaDisabled == isGeneratingSpeech

GenerateDisabled == isGeneratingSpeech \/ Trim(text) = <<>>

DownloadDisabled == isGeneratingSpeech \/ generatedAudio = NoAudio

SendToTtsDisabled == isGeneratingLyrics \/ generatedLyrics = <<>>

\* The state after the first render and the mount effect (lines 17-44): the
\* AudioContext is created running or suspended (autoplay policy), or its
\* construction throws.
Init ==
    /\ args = [fn |-> "none"]
    /\ ret = Pending
    /\ activeTab = "tts"
    /\ text = DefaultTtsText
    /\ isGeneratingSpeech = FALSE
    /\ audioContextRef \in {"running", "suspended", "null"}
    /\ ttsError = IF audioContextRef = "null" THEN "AudioContext unsupported" ELSE "null"
    /\ generatedAudio = NoAudio
    /\ audioSourceRef = 0
    /\ calls = [i \in CallIds |-> [pc |-> "idle", text |-> <<>>]]
    /\ sources = [i \in CallIds |-> "none"]
    /\ microtasks = <<>>
    /\ download = <<>>
    /\ generatedLyrics = <<>>
    /\ isGeneratingLyrics = FALSE
    /\ lyricsError = "null"

\* An event handler or event callback runs as a task of the event loop: it
\* starts only when the microtask queue is empty, so never between the
\* `await decodeAudioData(...)` of an invocation (line 80) and its resumption.
TaskCanRun == microtasks = <<>>

\* handleTextChange (lines 46-49).
HandleTextChange(t) ==
    /\ TaskCanRun
    /\ activeTab = "tts" /\ ~TextAreaDisabled
    /\ t # text
    /\ text' = t
    /\ generatedAudio' = NoAudio
    /\ UNCHANGED <<args, ret, microtasks, activeTab, isGeneratingSpeech, ttsError, audioContextRef,
                   audioSourceRef, calls, sources, download, generatedLyrics,
                   isGeneratingLyrics, lyricsError>>

\* source.stop(): a playing source stops and its 'ended' event is queued.
StopSource(srcs, id) ==
    IF id # 0 /\ srcs[id] = "playing" THEN [srcs EXCEPT ![id] = "finishing"] ELSE srcs

\* Lines 66-75 for the invocations in `ids`: the current source is stopped and
\* forgotten, the flags are set and generateSpeech is called with the text
\* each invocation captured.
StartRequests(ids, cs) ==
    /\ sources' = StopSource(sources, audioSourceRef)
    /\ audioSourceRef' = 0
    /\ isGeneratingSpeech' = TRUE
    /\ ttsError' = "null"
    /\ calls' = [i \in CallIds |-> IF i \in ids THEN [cs[i] EXCEPT !.pc = "awaitApi"]
                                   ELSE cs[i]]

\* handleGenerateSpeech up to its first await (lines 51-75), run by a click on
\* the generate button.  The handler reads the text of the render it was
\* created in.
HandleGenerateSpeech ==
    /\ TaskCanRun
    /\ activeTab = "tts" /\ ~GenerateDisabled
    /\ IF Trim(text) = <<>>
       THEN /\ ttsError' = "empty text"
            /\ UNCHANGED <<generatedAudio, calls, sources, audioSourceRef,
                           isGeneratingSpeech>>
       ELSE IF audioContextRef = "null"
       THEN /\ ttsError' = "audio context not initialised"
            /\ UNCHANGED <<generatedAudio, calls, sources, audioSourceRef,
                           isGeneratingSpeech>>
       ELSE /\ \E i \in CallIds : calls[i].pc = "idle"
            /\ LET id == CHOOSE i \in CallIds :
                           calls[i].pc = "idle" /\ \A j \in 1..(i - 1) : calls[j].pc # "idle"
                   mine == [pc |-> "awaitResume", text |-> text]
               IN /\ generatedAudio' = NoAudio
                  /\ IF audioContextRef = "suspended"
                     THEN /\ calls' = [calls EXCEPT ![id] = mine]
                          /\ UNCHANGED <<sources, audioSourceRef, isGeneratingSpeech, ttsError>>
                     ELSE StartRequests({id}, [calls EXCEPT ![id] = mine])
    /\ UNCHANGED <<args, ret, microtasks, activeTab, text, audioContextRef, download,
                   generatedLyrics, isGeneratingLyrics, lyricsError>>

\* The context starts running: every pending resume() promise is resolved and
\* the invocations awaiting one (line 63) continue, one after the other in the
\* same turn, to their await of generateSpeech.
ResumeResolved ==
    /\ TaskCanRun
    /\ audioContextRef = "suspended"
    /\ \E i \in CallIds : calls[i].pc = "awaitResume"
    /\ audioContextRef' = "running"
    /\ StartRequests({i \in CallIds : calls[i].pc = "awaitResume"}, calls)
    /\ UNCHANGED <<args, ret, microtasks, activeTab, text, generatedAudio, download,
                   generatedLyrics, isGeneratingLyrics, lyricsError>>

\* An invocation that has returned: its closure, and the text in it, is gone.
Finished(how) == [pc |-> how, text |-> <<>>]

\* The flag as it is left when the finally block is missing.
GeneratingLeftAsIs == isGeneratingSpeech

\* finally { setIsGeneratingSpeech(false) } (line 99).
GeneratingAfterFinally == FALSE

\* What decode gives for each payload (lines 79 and 109), what the promise
\* of decodeAudioData(audioData, ctx) settles to (line 80, with its default
\* sample rate and channel count), and the WAV file of lines 109-110.
AudioDataOf == [p \in Payloads |-> decode(p)]

PlaybackOf ==
    [p \in Payloads |->
        IF AudioDataOf[p].tag = "throw" THEN AudioDataOf[p]
        ELSE decodeAudioData(AudioDataOf[p].value, 24000, 1)]

WavOf ==
    [p \in Payloads |->
        IF AudioDataOf[p].tag = "throw" THEN AudioDataOf[p]
        ELSE Ok(createWavBlob(AudioDataOf[p].value, Digits(24000), Digits(1)).bytes)]

\* The promise of generateSpeech settles for invocation i and
\* handleGenerateSpeech continues from line 75.  With a payload that decode
\* accepts it runs to `await decodeAudioData(...)` (line 80) and is suspended
\* again, its resumption queued as a microtask; otherwise it runs through the
\* else branch or the catch block, and the finally block, and returns.
\* Another invocation whose promise was resolved in the same task continues
\* before that microtask runs.
ApiSettles(i, resp) ==
    /\ calls[i].pc = "awaitApi"
    /\ IF resp.tag = "ok" /\ resp.value # <<>> /\ audioContextRef # "null"
       THEN /\ generatedAudio' = [tag |-> "set", data |-> resp.value,
                                  text |-> calls[i].text]
            /\ IF AudioDataOf[resp.value].tag = "ok"
               THEN /\ calls' = [calls EXCEPT ![i].pc = "awaitDecode"]
                    /\ microtasks' = Append(microtasks,
                                            [call |-> i, base64Audio |-> resp.value])
                    /\ UNCHANGED <<ttsError, isGeneratingSpeech>>
               ELSE /\ ttsError' = AudioDataOf[resp.value].error
                    /\ calls' = [calls EXCEPT ![i] = Finished("failed")]
                    /\ isGeneratingSpeech' = GeneratingAfterFinally
                    /\ UNCHANGED microtasks
       ELSE /\ ttsError' = IF resp.tag = "throw" THEN resp.error ELSE "empty response"
            /\ calls' = [calls EXCEPT ![i] = Finished("failed")]
            /\ isGeneratingSpeech' = GeneratingAfterFinally
            /\ UNCHANGED <<generatedAudio, microtasks>>
    /\ UNCHANGED <<args, ret, activeTab, text, audioContextRef, audioSourceRef, sources,
                   download, generatedLyrics, isGeneratingLyrics, lyricsError>>

\* The oldest microtask runs: the invocation suspended at line 80 resumes
\* with the audio buffer and starts its source (lines 82-90), or with the
\* error decodeAudioData threw and runs the catch block; then the finally
\* block (line 99).
DecodeSettles ==
    /\ microtasks # <<>>
    /\ LET i == Head(microtasks).call
           audioBuffer == PlaybackOf[Head(microtasks).base64Audio]
       IN /\ calls[i].pc = "awaitDecode"
          /\ IF audioBuffer.tag = "ok"
             THEN /\ sources' = [sources EXCEPT ![i] = "playing"]
                  /\ audioSourceRef' = i
                  /\ calls' = [calls EXCEPT ![i] = Finished("done")]
                  /\ UNCHANGED ttsError
             ELSE /\ ttsError' = audioBuffer.error
                  /\ calls' = [calls EXCEPT ![i] = Finished("failed")]
                  /\ UNCHANGED <<sources, audioSourceRef>>
    /\ microtasks' = Tail(microtasks)
    /\ isGeneratingSpeech' = GeneratingAfterFinally
    /\ UNCHANGED <<args, ret, activeTab, text, generatedAudio, audioContextRef, download,
                   generatedLyrics, isGeneratingLyrics, lyricsError>>

\* A playing source reaches the end of its buffer: its 'ended' event is queued.
SourceEnds(i) ==
    /\ sources[i] = "playing"
    /\ sources' = [sources EXCEPT ![i] = "finishing"]
    /\ UNCHANGED <<args, ret, microtasks, activeTab, text, isGeneratingSpeech, ttsError,
                   generatedAudio, audioContextRef, audioSourceRef, calls, download,
                   generatedLyrics, isGeneratingLyrics, lyricsError>>

\* source.onended (lines 88-90) of the source of invocation i.
OnEnded(i) ==
    /\ TaskCanRun
    /\ sources[i] = "finishing"
    /\ sources' = [sources EXCEPT ![i] = "ended"]
    /\ audioSourceRef' = 0
    /\ UNCHANGED <<args, ret, microtasks, activeTab, text, isGeneratingSpeech, ttsError,
                   generatedAudio, audioContextRef, calls, download,
                   generatedLyrics, isGeneratingLyrics, lyricsError>>

\* handleDownload (lines 103-124).
HandleDownload ==
    /\ TaskCanRun
    /\ activeTab = "tts" /\ ~DownloadDisabled
    /\ IF generatedAudio = NoAudio
       THEN ttsError' = "no audio to download" /\ UNCHANGED download
       ELSE LET wavBlob == WavOf[generatedAudio.data]
            IN IF wavBlob.tag = "throw"
               THEN ttsError' = "download failed" /\ UNCHANGED download
               ELSE /\ download' = wavBlob.value
                    /\ UNCHANGED ttsError
    /\ UNCHANGED <<args, ret, microtasks, activeTab, text, isGeneratingSpeech, generatedAudio,
                   audioContextRef, audioSourceRef, calls, sources,
                   generatedLyrics, isGeneratingLyrics, lyricsError>>

\* The tab buttons (lines 248-267).
SetActiveTab(tab) ==
    /\ TaskCanRun
    /\ tab # activeTab
    /\ activeTab' = tab
    /\ UNCHANGED <<args, ret, microtasks, text, isGeneratingSpeech, ttsError, generatedAudio,
                   audioContextRef, audioSourceRef, calls, sources, download,
                   generatedLyrics, isGeneratingLyrics, lyricsError>>

\* handleGenerateLyrics up to its await (lines 126-135); the prompt is the
\* non-empty default.
HandleGenerateLyrics ==
    /\ TaskCanRun
    /\ activeTab = "compose" /\ ~isGeneratingLyrics
    /\ isGeneratingLyrics' = TRUE
    /\ lyricsError' = "null"
    /\ generatedLyrics' = <<>>
    /\ UNCHANGED <<args, ret, microtasks, activeTab, text, isGeneratingSpeech, ttsError,
                   generatedAudio, audioContextRef, audioSourceRef, calls, sources,
                   download>>

\* The promise of generateLyrics settles (lines 135-142).
LyricsSettles(resp) ==
    /\ isGeneratingLyrics
    /\ IF resp.tag = "ok"
       THEN generatedLyrics' = resp.value /\ UNCHANGED lyricsError
       ELSE lyricsError' = resp.error /\ UNCHANGED generatedLyrics
    /\ isGeneratingLyrics' = FALSE
    /\ UNCHANGED <<args, ret, microtasks, activeTab, text, isGeneratingSpeech, ttsError,
                   generatedAudio, audioContextRef, audioSourceRef, calls, sources,
                   download>>

\* sendLyricsToTts (lines 145-149).
SendLyricsToTts ==
    /\ TaskCanRun
    /\ activeTab = "compose" /\ ~SendToTtsDisabled
    /\ text' = generatedLyrics
    /\ activeTab' = "tts"
    /\ generatedAudio' = NoAudio
    /\ UNCHANGED <<args, ret, microtasks, isGeneratingSpeech, ttsError, audioContextRef,
                   audioSourceRef, calls, sources, download, generatedLyrics,
                   isGeneratingLyrics, lyricsError>>

Next ==
    \/ \E t \in Texts : HandleTextChange(t)
    \/ HandleGenerateSpeech
    \/ ResumeResolved
    \/ \E i \in CallIds, resp \in SpeechResponses : ApiSettles(i, resp)
    \/ DecodeSettles
    \/ \E i \in CallIds : SourceEnds(i)
    \/ \E i \in CallIds : OnEnded(i)
    \/ HandleDownload
    \/ \E tab \in {"tts", "compose"} : SetActiveTab(tab)
    \/ HandleGenerateLyrics
    \/ \E resp \in LyricsResponses : LyricsSettles(resp)
    \/ SendLyricsToTts

Spec == Init /\ [][Next]_vars

\* The API call of every invocation settles, and a queued microtask runs.
ApiFairness ==
    /\ \A i \in CallIds : WF_vars(\E resp \in SpeechResponses : ApiSettles(i, resp))
    /\ WF_vars(DecodeSettles)

LiveSpec == Init /\ [][Next]_vars /\ ApiFairness


(***************************************************************************)
(* Properties of the App.                                                  *)
(***************************************************************************)
Playing == {i \in CallIds : sources[i] = "playing"}

\* C6: at most one audio source is playing at any time, and while one is
\* playing audioSourceRef refers to it.
C6_SinglePlayingSource ==
    /\ Cardinality(Playing) <= 1
    /\ \A i \in Playing : audioSourceRef = i

\* C8: audio offered for download was generated from the current text.
C8_NoStaleAudio ==
    generatedAudio # NoAudio => generatedAudio.text = text

\* C9: a generation that ends in failure sets ttsError, starts no source and
\* leaves generatedAudio null.
C9_FailureLeavesNoAudio ==
    [][\A i \in CallIds :
          (calls[i].pc \in {"awaitApi", "awaitDecode"} /\ calls'[i].pc = "failed") =>
              /\ ttsError' # "null"
              /\ sources'[i] = "none"
              /\ generatedAudio' = NoAudio]_vars

\* C10: an invocation that set isGeneratingSpeech and awaits the API can
\* continue however the call settles, and so can one suspended at the await
\* of decodeAudioData; as it returns it sets the flag to false, on the
\* success path and on every failure path; so a set flag is cleared
\* eventually, given that the API calls settle; and while it is set, the
\* generate button, the download button and the textarea are disabled.
C10_GeneratingFlagCleared ==
    /\ [](\A i \in CallIds :
             calls[i].pc = "awaitApi" =>
                 \A resp \in SpeechResponses : ENABLED ApiSettles(i, resp))
    /\ [](\A i \in CallIds :
             calls[i].pc = "awaitDecode" =>
                 /\ \E k \in DOMAIN microtasks : microtasks[k].call = i
                 /\ ENABLED DecodeSettles)
    /\ [][\A i \in CallIds :
             (calls[i].pc \in {"awaitApi", "awaitDecode"}
                  /\ calls'[i].pc \in {"done", "failed"}) =>
                 ~isGeneratingSpeech']_vars
    /\ isGeneratingSpeech ~> ~isGeneratingSpeech
    /\ [](isGeneratingSpeech => (GenerateDisabled /\ DownloadDisabled /\ TextAreaDisabled))

\* One invocation has succeeded, another has failed after its await of
\* decodeAudioData, and the flag is clear.
C10_Witness ==
    /\ \E i \in CallIds : calls[i].pc = "done"
    /\ \E i \in CallIds : calls[i].pc = "failed" /\ ttsError = "NotSupportedError"
    /\ ~isGeneratingSpeech

=============================================================================
